---- MODULE Spec2Model ----
(***************************************************************************)
(* State-machine model of the Index component of src/index.tsx: the five   *)
(* useState cells, the asynchronous fetchWeather pipeline (one run record  *)
(* per invocation, one step per await), the useEffect that starts a run on *)
(* mount and on every change of `city`, handleSearch, and the derived      *)
(* background palette bgColors.                                            *)
(*                                                                         *)
(* Representation.  A JavaScript string that the code inspects character   *)
(* by character (trim, includes, truthiness) is a sequence of one-         *)
(* character strings.  A message is a sequence of string pieces, so that   *)
(* template interpolation is concatenation.  A nullable value is None      *)
(* (the empty sequence) or Some(x) (a one-element sequence).               *)
(*                                                                         *)
(* React commits the state updates made by one synchronous stretch of code *)
(* (an event handler plus the effects it triggers, or the code between two *)
(* awaits) as one batch, so each such stretch is one action.               *)
(***************************************************************************)
EXTENDS Integers, Sequences, FiniteSets, TLC

VARIABLES API_KEY, mounted, city, weatherData, loading, error, searchInput, runs

vars == <<API_KEY, mounted, city, weatherData, loading, error, searchInput, runs>>

(***************************************************************************)
(* Bounds of the model.                                                    *)
(***************************************************************************)
\* number of fetchWeather invocations followed in one behaviour (Spec)
MaxRuns == 3
\* number of fetchWeather invocations followed in ThemeSpec
ThemeRuns == 1
\* timestamps of a forecast body range over 0..MaxTime
MaxTime == 4

None == <<>>
Some(x) == <<x>>

(***************************************************************************)
(* Strings.                                                                *)
(***************************************************************************)
WhiteSpace == {" ", "\t", "\n"}

RECURSIVE TrimStart(_)
TrimStart(s) ==
    IF s # <<>> /\ Head(s) \in WhiteSpace THEN TrimStart(Tail(s)) ELSE s

RECURSIVE TrimEnd(_)
TrimEnd(s) ==
    IF s # <<>> /\ s[Len(s)] \in WhiteSpace
    THEN TrimEnd(SubSeq(s, 1, Len(s) - 1))
    ELSE s

\* String.prototype.trim
Trim(s) == TrimEnd(TrimStart(s))

\* String.prototype.includes
Includes(s, sub) ==
    \E i \in 0..(Len(s) - Len(sub)) : SubSeq(s, i + 1, i + Len(sub)) = sub

\* truthiness of a JavaScript string: non-empty
Truthy(s) == s # <<>>

Irvine == <<"I", "r", "v", "i", "n", "e">>
Rome == <<"R", "o", "m", "e">>
Roma == <<"R", "o", "m", "a">>

Clear == <<"C", "l", "e", "a", "r">>
Clouds == <<"C", "l", "o", "u", "d", "s">>
Rain == <<"R", "a", "i", "n">>
Drizzle == <<"D", "r", "i", "z", "z", "l", "e">>
Snow == <<"S", "n", "o", "w">>
Mist == <<"M", "i", "s", "t">>

(***************************************************************************)
(* Messages.                                                               *)
(***************************************************************************)
API_KEY_PLACEHOLDER == "YOUR_API_KEY_HERE"

KeyMsg == <<"Please add your OpenWeatherMap API key.">>
GeoFailMsg == <<"Failed to fetch city coordinates.">>
NotFoundMsg(cityName) == <<"Could not find city: \"">> \o cityName \o <<"\"">>
AuthMsg == <<"API Key Error. Ensure it is valid and authorized for One Call API.">>
UnknownMsg == <<"An unknown error occurred.">>

\* new Error(message)
ErrorOf(message) == [isError |-> TRUE, message |-> message]

(***************************************************************************)
(* The environment: what the user can type and what the two remote calls   *)
(* can answer.                                                             *)
(***************************************************************************)
\* texts the user can put in the search field
SearchTexts == {<<>>, <<" ">>, Rome, <<" ">> \o Rome \o <<" ">>, Irvine}

\* values a rejected fetch() can carry: the TypeError of a transport
\* failure, or (a stubbed fetch) a value that is not an Error
FetchThrown == {ErrorOf(<<"Network request failed">>),
                [isError |-> FALSE, message |-> <<"offline">>]}

\* values a rejected response.json() can carry: the SyntaxError of a
\* malformed body, or a value that is not an Error
JsonThrown == {ErrorOf(<<"JSON Parse error: Unexpected token">>),
               [isError |-> FALSE, message |-> <<"bad body">>]}

\* matches of the geocoding lookup; the canonical name need not be the query
GeoMatches == {[lat |-> 33, lon |-> 117, name |-> Irvine],
               [lat |-> 41, lon |-> 12, name |-> Roma]}

\* bodies of the geocoding response: an array of at most one match (limit=1)
GeoBodies == {<<>>} \cup {<<m>> : m \in GeoMatches}

\* a forecast body of the One Call shape (the fields the palette reads);
\* bodies that parse are taken to have this shape
Forecast(main, dt, sunrise, sunset) ==
    [current |-> [dt |-> dt, sunrise |-> sunrise, sunset |-> sunset,
                  weather |-> <<[main |-> main]>>]]

\* forecast bodies of Spec
Forecasts == {Forecast(Clear, 2, 1, 3), Forecast(Clouds, 1, 1, 3),
              Forecast(Mist, 2, 1, 3)}

\* primary conditions of the forecast bodies of ThemeSpec
ThemeConditions == {Clear, Clouds, Rain, Drizzle, Snow, Mist,
                    Clear \o Clouds, Clouds \o <<" ">> \o Clear,
                    Snow \o Rain, <<"c", "l", "e", "a", "r">>}

\* forecast bodies of ThemeSpec
ThemeForecasts == {Forecast(c, dt, 1, MaxTime - 1) :
                       c \in ThemeConditions, dt \in 0..MaxTime}

(***************************************************************************)
(* Runs of fetchWeather.                                                   *)
(***************************************************************************)
RunIds == 1..(MaxRuns + ThemeRuns)

InFlightPcs == {"geoFetch", "geoJson", "wxFetch", "wxJson"}

IdleRun == [pc |-> "idle", cityName |-> <<>>, geoUrl |-> None,
            geo |-> None, weatherUrl |-> None]

DoneRun == [IdleRun EXCEPT !.pc = "done"]

InFlight(r) == runs[r].pc \in InFlightPcs

\* number of invocations so far
Started == Cardinality({r \in RunIds : runs[r].pc # "idle"})

\* the record of the next invocation
FreeSlot == CHOOSE r \in RunIds : runs[r].pc = "idle" /\
                \A q \in RunIds : q < r => runs[q].pc # "idle"

GeoUrl(cityName) == [q |-> cityName, limit |-> 1, appid |-> API_KEY]

WeatherUrl(lat, lon) ==
    [lat |-> lat, lon |-> lon, units |-> "imperial",
     exclude |-> "minutely,alerts", appid |-> API_KEY]

(***************************************************************************)
(* Init: the state of the first render, before the effect has run.         *)
(* API_KEY is the constant of line 121: the shipped source holds the       *)
(* placeholder, a deployment replaces it by a real key; both builds are    *)
(* initial states.  `mounted` is the position of the mount effect.         *)
(***************************************************************************)
Init ==
    /\ API_KEY \in {API_KEY_PLACEHOLDER, "0123456789abcdef"}
    /\ mounted = FALSE
    /\ city = Irvine
    /\ weatherData = None
    /\ loading = TRUE
    /\ error = None
    /\ searchInput = <<>>
    /\ runs = [r \in RunIds |-> IdleRun]

(***************************************************************************)
(* fetchWeather, up to its first await.                                    *)
(***************************************************************************)
KeyIsPlaceholderM == FALSE
KeyIsPlaceholder == API_KEY = API_KEY_PLACEHOLDER

FetchWeather(cityName) ==
    IF ~Truthy(cityName)
    THEN UNCHANGED <<loading, error, weatherData, runs>>
    ELSE IF KeyIsPlaceholder
    THEN /\ error' = Some(KeyMsg)
         /\ loading' = FALSE
         /\ runs' = [runs EXCEPT ![FreeSlot] = DoneRun]
         /\ UNCHANGED weatherData
    ELSE /\ loading' = TRUE
         /\ error' = None
         /\ runs' = [runs EXCEPT ![FreeSlot] =
                        [IdleRun EXCEPT !.pc = "geoFetch",
                                        !.cityName = cityName,
                                        !.geoUrl = Some(GeoUrl(cityName))]]
         /\ UNCHANGED weatherData

\* the value setLoading receives in the finally block
FinallyLoadingM == loading
FinallyLoading == FALSE

\* the message the catch block stores
CatchMessageM(thrown) == UnknownMsg
CatchMessage(thrown) ==
    IF thrown.isError THEN thrown.message ELSE UnknownMsg

\* catch and finally
Catch(r, thrown) ==
    /\ error' = Some(CatchMessage(thrown))
    /\ loading' = FinallyLoading
    /\ runs' = [runs EXCEPT ![r] = DoneRun]
    /\ UNCHANGED weatherData

(***************************************************************************)
(* The continuations of fetchWeather, one per await.                       *)
(***************************************************************************)
\* await fetch(geoUrl) resolves with a response whose ok flag is `ok`
GeoFetchResolved(r, ok) ==
    /\ runs[r].pc = "geoFetch"
    /\ IF ok
       THEN /\ runs' = [runs EXCEPT ![r].pc = "geoJson"]
            /\ UNCHANGED <<loading, error, weatherData>>
       ELSE Catch(r, ErrorOf(GeoFailMsg))
    /\ UNCHANGED <<API_KEY, mounted, city, searchInput>>

\* await fetch(geoUrl) rejects
GeoFetchRejected(r, thrown) ==
    /\ runs[r].pc = "geoFetch"
    /\ Catch(r, thrown)
    /\ UNCHANGED <<API_KEY, mounted, city, searchInput>>

GeoFetchSettle(r) ==
    \/ \E ok \in BOOLEAN : GeoFetchResolved(r, ok)
    \/ \E thrown \in FetchThrown : GeoFetchRejected(r, thrown)

\* await geoResponse.json() resolves with the array geoData
GeoJsonResolved(r, geoData) ==
    /\ runs[r].pc = "geoJson"
    /\ IF Len(geoData) = 0
       THEN Catch(r, ErrorOf(NotFoundMsg(runs[r].cityName)))
       ELSE /\ runs' = [runs EXCEPT ![r].pc = "wxFetch",
                                    ![r].geo = Some(geoData[1]),
                                    ![r].weatherUrl =
                                        Some(WeatherUrl(geoData[1].lat,
                                                        geoData[1].lon))]
            /\ UNCHANGED <<loading, error, weatherData>>
    /\ UNCHANGED <<API_KEY, mounted, city, searchInput>>

\* await geoResponse.json() rejects
GeoJsonRejected(r, thrown) ==
    /\ runs[r].pc = "geoJson"
    /\ Catch(r, thrown)
    /\ UNCHANGED <<API_KEY, mounted, city, searchInput>>

GeoJsonSettle(r) ==
    \/ \E geoData \in GeoBodies : GeoJsonResolved(r, geoData)
    \/ \E thrown \in JsonThrown : GeoJsonRejected(r, thrown)

\* await fetch(weatherUrl) resolves with a response whose ok flag is `ok`
WxFetchResolved(r, ok) ==
    /\ runs[r].pc = "wxFetch"
    /\ IF ok
       THEN /\ runs' = [runs EXCEPT ![r].pc = "wxJson"]
            /\ UNCHANGED <<loading, error, weatherData>>
       ELSE Catch(r, ErrorOf(AuthMsg))
    /\ UNCHANGED <<API_KEY, mounted, city, searchInput>>

\* await fetch(weatherUrl) rejects
WxFetchRejected(r, thrown) ==
    /\ runs[r].pc = "wxFetch"
    /\ Catch(r, thrown)
    /\ UNCHANGED <<API_KEY, mounted, city, searchInput>>

WxFetchSettle(r) ==
    \/ \E ok \in BOOLEAN : WxFetchResolved(r, ok)
    \/ \E thrown \in FetchThrown : WxFetchRejected(r, thrown)

\* { ...fetchedWeatherData, name }
ReadyBundleM(run, fetchedWeatherData) ==
    [name |-> run.cityName, current |-> fetchedWeatherData.current]
ReadyBundle(run, fetchedWeatherData) ==
    [name |-> run.geo[1].name, current |-> fetchedWeatherData.current]

\* await weatherResponse.json() resolves: setWeatherData, then finally
WxJsonResolved(r, fetchedWeatherData) ==
    /\ runs[r].pc = "wxJson"
    /\ weatherData' = Some(ReadyBundle(runs[r], fetchedWeatherData))
    /\ loading' = FinallyLoading
    /\ runs' = [runs EXCEPT ![r] = DoneRun]
    /\ UNCHANGED <<API_KEY, mounted, city, searchInput, error>>

\* await weatherResponse.json() rejects
WxJsonRejected(r, thrown) ==
    /\ runs[r].pc = "wxJson"
    /\ Catch(r, thrown)
    /\ UNCHANGED <<API_KEY, mounted, city, searchInput>>

WxJsonSettle(r, bodies) ==
    \/ \E fetchedWeatherData \in bodies : WxJsonResolved(r, fetchedWeatherData)
    \/ \E thrown \in JsonThrown : WxJsonRejected(r, thrown)

(***************************************************************************)
(* The component: effect, rendering, handlers.                             *)
(***************************************************************************)
\* useEffect on mount: fetchWeather(city)
Mount ==
    /\ ~mounted
    /\ mounted' = TRUE
    /\ FetchWeather(city)
    /\ UNCHANGED <<API_KEY, city, searchInput>>

\* renderContent: which of its branches is returned
View ==
    IF loading THEN "loading"
    ELSE IF error # None /\ Truthy(error[1]) THEN "error"
    ELSE IF weatherData # None THEN "weather"
    ELSE "null"

\* the TextInput exists only in the error and weather branches of renderContent
InputRenderedM == TRUE
InputRendered == View \in {"error", "weather"}

\* the palettes the LinearGradient can receive
DefaultPalette == <<"#4c669f", "#3b5998", "#192f6a">>
ClearDay == <<"#4a90e2", "#81c7f5">>
ClearNight == <<"#0c1445", "#3b5998">>
CloudsDay == <<"#6c7a89", "#95a5a6">>
CloudsNight == <<"#2c3e50", "#34495e">>
RainPalette == <<"#546e7a", "#37474f">>
SnowPalette == <<"#b0c4de", "#a4b0be">>

\* primary condition and day flag of a bundle
ConditionOf(bundle) == bundle.current.weather[1].main
IsDay(bundle) ==
    bundle.current.dt > bundle.current.sunrise
    /\ bundle.current.dt < bundle.current.sunset

\* bgColors as computed during a render from the weatherData cell
BgColorsM(wd) ==
    IF wd # None
    THEN LET condition == ConditionOf(wd[1])
             isDay == IsDay(wd[1])
         IN  IF Includes(condition, Clouds)
             THEN (IF isDay THEN CloudsDay ELSE CloudsNight)
             ELSE IF Includes(condition, Clear)
             THEN (IF isDay THEN ClearDay ELSE ClearNight)
             ELSE IF Includes(condition, Rain) \/ Includes(condition, Drizzle)
             THEN RainPalette
             ELSE IF Includes(condition, Snow)
             THEN SnowPalette
             ELSE DefaultPalette
    ELSE DefaultPalette
BgColors(wd) ==
    IF wd # None
    THEN LET condition == ConditionOf(wd[1])
             isDay == IsDay(wd[1])
         IN  IF Includes(condition, Clear)
             THEN (IF isDay THEN ClearDay ELSE ClearNight)
             ELSE IF Includes(condition, Clouds)
             THEN (IF isDay THEN CloudsDay ELSE CloudsNight)
             ELSE IF Includes(condition, Rain) \/ Includes(condition, Drizzle)
             THEN RainPalette
             ELSE IF Includes(condition, Snow)
             THEN SnowPalette
             ELSE DefaultPalette
    ELSE DefaultPalette

bgColors == BgColors(weatherData)

\* onChangeText={setSearchInput}
ChangeText(text) ==
    /\ mounted
    /\ InputRendered
    /\ text # searchInput
    /\ searchInput' = text
    /\ UNCHANGED <<API_KEY, mounted, city, weatherData, loading, error, runs>>

\* onSubmitEditing={handleSearch}, with the effect a change of `city` triggers;
\* maxRuns caps the number of invocations followed
HandleSearch(maxRuns) ==
    /\ mounted
    /\ InputRendered
    /\ IF Truthy(searchInput)
       THEN /\ city' = Trim(searchInput)
            /\ searchInput' = <<>>
            /\ IF city' # city
               THEN /\ Truthy(city') => Started < maxRuns
                    /\ FetchWeather(city')
               ELSE UNCHANGED <<loading, error, weatherData, runs>>
       ELSE UNCHANGED <<city, searchInput, loading, error, weatherData, runs>>
    /\ UNCHANGED <<API_KEY, mounted>>

(***************************************************************************)
(* Specifications.                                                         *)
(***************************************************************************)
Next ==
    \/ Mount
    \/ \E text \in SearchTexts : ChangeText(text)
    \/ HandleSearch(MaxRuns)
    \/ \E r \in RunIds : GeoFetchSettle(r)
    \/ \E r \in RunIds : GeoJsonSettle(r)
    \/ \E r \in RunIds : WxFetchSettle(r)
    \/ \E r \in RunIds : WxJsonSettle(r, Forecasts)

Spec == Init /\ [][Next]_vars

\* every remote call eventually responds or fails; the effect eventually runs
Fairness ==
    /\ WF_vars(Mount)
    /\ \A r \in RunIds :
          /\ WF_vars(GeoFetchSettle(r))
          /\ WF_vars(GeoJsonSettle(r))
          /\ WF_vars(WxFetchSettle(r))
          /\ WF_vars(WxJsonSettle(r, Forecasts))

LiveSpec == Spec /\ Fairness

\* the same program, fed the forecast bodies that exercise every theme rule
ThemeNext ==
    \/ Mount
    \/ \E text \in SearchTexts : ChangeText(text)
    \/ HandleSearch(ThemeRuns)
    \/ \E r \in RunIds : GeoFetchSettle(r)
    \/ \E r \in RunIds : GeoJsonSettle(r)
    \/ \E r \in RunIds : WxFetchSettle(r)
    \/ \E r \in RunIds : WxJsonSettle(r, ThemeForecasts)

ThemeSpec == Init /\ [][ThemeNext]_vars

(***************************************************************************)
(* Properties.                                                             *)
(***************************************************************************)
AnyInFlight == \E r \in RunIds : InFlight(r)

\* at most one invocation of fetchWeather is in flight: the search field is
\* not rendered while loading, and loading is set while a run is in flight
NoOverlap == Cardinality({r \in RunIds : InFlight(r)}) <= 1

\* run r takes its last step
Settles(r) == InFlight(r) /\ runs'[r].pc = "done"

\* C1: in every reachable state exactly one of loading = true,
\* error != null, weatherData != null holds.
C1_ExactlyOne ==
    (IF loading THEN 1 ELSE 0) + (IF error # None THEN 1 ELSE 0)
        + (IF weatherData # None THEN 1 ELSE 0) = 1

\* C2: whenever the error screen is shown, the background palette is the
\* fixed default palette (nothing derived from an earlier bundle).
C2_NoStalePalette == View = "error" => bgColors = DefaultPalette

\* C4: submitting a search string that is empty after trimming leaves the
\* whole state unchanged.
C4_BlankSubmitNoop ==
    [][(HandleSearch(MaxRuns) /\ Trim(searchInput) = <<>>)
          => UNCHANGED vars]_vars

\* C5: with the placeholder key no request is ever issued (no run is ever
\* waiting on a remote call, no URL is ever built, no bundle ever stored)
\* and every run ends in Error("Please add your OpenWeatherMap API key.")
\* with loading cleared.
C5_PlaceholderKey ==
    API_KEY = API_KEY_PLACEHOLDER =>
        /\ \A r \in RunIds : /\ ~InFlight(r)
                             /\ runs[r].geoUrl = None
                             /\ runs[r].weatherUrl = None
        /\ weatherData = None
        /\ mounted => (error = Some(KeyMsg) /\ ~loading /\ View = "error")

C5_Witness ==
    /\ API_KEY = API_KEY_PLACEHOLDER
    /\ city = Rome
    /\ Started = 2
    /\ error = Some(KeyMsg)

C7_ReadyWithCanonicalName ==
    /\ [](\A r \in RunIds :
            /\ runs[r].pc \in {"geoFetch", "geoJson"}
                  => (runs[r].geo = None /\ runs[r].weatherUrl = None)
            /\ runs[r].pc \in {"wxFetch", "wxJson"}
                  => /\ runs[r].geo # None
                     /\ runs[r].weatherUrl # None
                     /\ runs[r].weatherUrl[1].lat = runs[r].geo[1].lat
                     /\ runs[r].weatherUrl[1].lon = runs[r].geo[1].lon)
    /\ [][\A r \in RunIds : \A b \in Forecasts :
            WxJsonResolved(r, b)
                => /\ ~loading'
                   /\ error' = None
                   /\ View' = "weather"
                   /\ weatherData'[1].name = runs[r].geo[1].name
                   /\ weatherData'[1].current = b.current]_vars

C7_Witness ==
    /\ View = "weather"
    /\ error = None
    /\ city = Rome
    /\ weatherData[1].name = Roma

\* C8: entering Loading clears any prior Error; a run's last step clears
\* loading and leaves Error or Ready; every run in flight eventually
\* settles and the loading flag eventually falls.
C8_LoadingEnds ==
    /\ [](loading => error = None)
    /\ [][\A r \in RunIds :
            Settles(r) => (~loading' /\ View' \in {"error", "weather"})]_vars
    /\ \A r \in RunIds : InFlight(r) ~> (runs[r].pc = "done")
    /\ loading ~> ~loading

C8_Witness ==
    /\ API_KEY # API_KEY_PLACEHOLDER
    /\ Started = 2
    /\ ~AnyInFlight
    /\ ~loading
    /\ View = "error"

\* C9: the palette is decided by the first matching rule in the order
\* Clear, Clouds, Rain or Drizzle, Snow, default; the day variants are used
\* only when sunrise < dt < sunset strictly.
C9_ThemeRules ==
    IF weatherData = None
    THEN bgColors = DefaultPalette
    ELSE LET c == ConditionOf(weatherData[1])
             cur == weatherData[1].current
             strictlyInside == cur.sunrise < cur.dt /\ cur.dt < cur.sunset
             has(w) == Includes(c, w)
         IN  /\ has(Clear) => bgColors \in {ClearDay, ClearNight}
             /\ (~has(Clear) /\ has(Clouds))
                    => bgColors \in {CloudsDay, CloudsNight}
             /\ (~has(Clear) /\ ~has(Clouds) /\ (has(Rain) \/ has(Drizzle)))
                    => bgColors = RainPalette
             /\ (~has(Clear) /\ ~has(Clouds) /\ ~has(Rain) /\ ~has(Drizzle)
                    /\ has(Snow))
                    => bgColors = SnowPalette
             /\ (~has(Clear) /\ ~has(Clouds) /\ ~has(Rain) /\ ~has(Drizzle)
                    /\ ~has(Snow))
                    => bgColors = DefaultPalette
             /\ bgColors \in {ClearDay, CloudsDay} <=>
                    (strictlyInside /\ (has(Clear) \/ has(Clouds)))
             /\ (cur.dt = cur.sunrise \/ cur.dt = cur.sunset)
                    => bgColors \notin {ClearDay, CloudsDay}

C9_Witness ==
    /\ weatherData # None
    /\ Includes(ConditionOf(weatherData[1]), Clear)
    /\ Includes(ConditionOf(weatherData[1]), Clouds)
    /\ weatherData[1].current.dt = weatherData[1].current.sunset
    /\ bgColors = ClearNight

\* C10: the loading screen is shown in every state in which some run has
\* started and not yet settled.
C10_LoadingWhileInFlight == AnyInFlight => (loading /\ View = "loading")

C10_Witness ==
    /\ \E r \in RunIds : runs[r].pc = "wxJson" /\ runs[r].cityName = Rome
    /\ weatherData # None
    /\ loading

====
